---- MODULE Spec2Model ----
(***************************************************************************)
(* The authenticated request pipeline of ghinknet/openapi-sdk-go (v3):     *)
(* NewClient, applyToken, Client.Send, Sender.parse, Sender.WithToken,     *)
(* Sender.WithKey and Result.OK / Result.Unmarshal of                      *)
(* src/v3/client/client.go.                                                *)
(*                                                                         *)
(* Goroutines are the processes of Procs.  Goroutine 1 constructs the      *)
(* client; every goroutine that holds the client then issues one call.     *)
(* The upstream is the environment: every round trip draws its outcome     *)
(* from Outcomes.  Fields marked "history" record what a call did and are  *)
(* never read by the modelled code.                                        *)
(***************************************************************************)
EXTENDS Integers, Sequences, FiniteSets, TLC

\* ---------------------------------------------------------------- bounds
\* WithMaxRetries is given 0..MaxRetriesOpt.
MaxRetriesOpt == 3
\* WithRetryDelay is given DelayOpt seconds, or is not given (default 1).
DelayOpt == 2
\* The upstream issues the tokens 1..NTokens.
NTokens == 2
\* Goroutines sharing one client in the concurrent specification.
NProcs == 2
\* WithMaxRetries is given 1..ConcRetries in the concurrent specification.
ConcRetries == 1
\* The code of the upstream's business rejections (not 200, not 801).
CodeDenied == 403
\* The upstream sends the integers 2^53 .. 2^53 + NumSpread as data.
NumSpread == 1

\* ------------------------------------------------------ program constants
DefaultTimeout == 3
DefaultMaxRetries == 5
DefaultRetryDelay == 1
CodeOK == 200
CodeExpired == 801

Procs == 1..NProcs
Tokens == 1..NTokens

\* An option of NewClient: <<v>> when it is passed, Unset when it is not.
Unset == <<>>

\* --------------------------------------------------------------- strings
\* A Go string is two words, a data pointer and a length.  The string of
\* token t has ptr = t and len = t; the empty string has both 0.  A value
\* with ptr # len belongs to no single assignment (a torn string).
Str(t) == [ptr |-> t, len |-> t]
EmptyStr == Str(0)
Whole(s) == s.ptr = s.len

\* ------------------------------------------------------------- upstream
\* data of an envelope: NullData is JSON null (or no data field), BadData a
\* JSON value that does not decode into the caller's struct, t in Tokens
\* the object {"token": t}.  An envelope of code 200 carries BadData or a
\* token object, any other envelope no data.
\* bytes: the re-encoded data (Result.Body); decodes, Token: what
\* unmarshalling it into struct{Token string} gives.  NoBody is the nil
\* Body of a Result that carries an error.
\* num: the number of a data that is a JSON integer, as the two limbs
\* <<hi, lo>> of hi * 2^27 + lo (0 <= lo < 2^27), <<0, 0>> otherwise.
Limb == 2 ^ 27
Zero == <<0, 0>>
NoBody == [bytes |-> "empty", decodes |-> FALSE, Token |-> 0, num |-> Zero]
NullData == [bytes |-> "null", decodes |-> TRUE, Token |-> 0, num |-> Zero]
BadData == [bytes |-> "value", decodes |-> FALSE, Token |-> 0, num |-> Zero]
TokenData(t) == [bytes |-> "object", decodes |-> TRUE, Token |-> t, num |-> Zero]
NumData(n) == [bytes |-> "number", decodes |-> FALSE, Token |-> 0, num |-> n]

\* The integers the upstream sends as data: 1, and 2^53 + d for d in
\* 0..NumSpread.
Nums == {<<0, 1>>} \cup {<<2 ^ 26, d>> : d \in 0..NumSpread}
Data == {BadData} \cup {TokenData(t) : t \in Tokens} \cup {NumData(n) : n \in Nums}

\* A JSON number decoded into an `any` is a float64 (53-bit significand):
\* an integer of 54 bits is rounded to the nearest even integer, ties to
\* the one whose half is even.
Float64(n) ==
    IF n[1] < 2 ^ 26 \/ n[2] % 2 = 0 THEN n
    ELSE LET lo == IF (n[2] + 1) % 4 = 0 THEN n[2] + 1 ELSE n[2] - 1
         IN  IF lo = Limb THEN <<n[1] + 1, 0>> ELSE <<n[1], lo>>

\* marshal(result.Data) of the data d decoded into an `any`.
Remarshal(d) == [d EXCEPT !.num = Float64(@)]
Codes == {CodeOK, CodeDenied, CodeExpired}

NoOutcome ==
    [kind |-> "none", shape |-> "none", code |-> 0, msg |-> "", data |-> NullData]

\* The envelope {code: c, msg, data: d}; the upstream's msg is "ok" with
\* code 200 and "no" with any other.
Envelope(k, c, d) ==
    [kind |-> k, shape |-> "envelope", code |-> c,
     msg |-> IF c = CodeOK THEN "ok" ELSE "no", data |-> d]

\* What one client.Do + io.ReadAll gives: a transport error, a status other
\* than 200, a body read error, or a body.  A body is not JSON ("garbage"),
\* JSON that does not decode into the envelope struct ("mistyped"), or an
\* envelope {code, msg, data}.
\* A response whose status is not 200 has no
\* body or an envelope for a body.
Outcomes ==
    {[kind |-> k, shape |-> "none", code |-> 0, msg |-> "", data |-> NullData] :
        k \in {"neterr", "status", "readerr"}}
    \cup {[kind |-> "body", shape |-> s, code |-> 0, msg |-> "", data |-> NullData] :
        s \in {"garbage", "mistyped"}}
    \cup {Envelope("body", CodeOK, d) : d \in Data}
    \cup {Envelope("body", c, NullData) : c \in Codes \ {CodeOK}}
    \cup {Envelope("status", CodeOK, TokenData(1)),
          Envelope("status", CodeExpired, NullData)}

\* ---------------------------------------------------------------- Result
NoResult == [Err |-> "none", Code |-> 0, Msg |-> "", Body |-> NoBody]
ErrResult(e) == [Err |-> e, Code |-> 0, Msg |-> "", Body |-> NoBody]

\* Result.OK
OK(r) == r.Code = CodeOK

\* Result.Unmarshal into struct{Token string}: the error, and the field.
Unmarshal(r) ==
    [err |-> IF r.Body.decodes THEN "nil" ELSE "unmarshal",
     Token |-> r.Body.Token]

\* A faulty variant of parse: the data is re-encoded whether or not the
\* body decoded.
parseReencodesAlways(o) ==
    IF o.shape = "envelope"
    THEN [Err |-> "nil", Code |-> o.code, Msg |-> o.msg,
          Body |-> Remarshal(o.data)]
    ELSE [ErrResult("decode") EXCEPT !.Body = Remarshal(o.data)]

\* Sender.parse of a body that was read.
parse(o) ==
    IF o.shape = "envelope"
    THEN [Err |-> "nil", Code |-> o.code, Msg |-> o.msg,
          Body |-> Remarshal(o.data)]
    ELSE ErrResult("decode")

\* The error WithToken and WithKey return when the loop ends.
Exhausted == ErrResult("exhausted")

\* ------------------------------------------------------------------ state
VARIABLES
    opts,     \* the options the application passes to NewClient
    client,   \* the Client; made: "none", "building", "ready", "failed"
    pc,       \* each goroutine's position
    sender,   \* each goroutine's Sender (with the request's headers)
    call,     \* each goroutine's WithToken / WithKey activation
    acq,      \* each goroutine's applyToken activation (its WithKey call)
    result    \* the Result each goroutine's call returned

vars == <<opts, client, pc, sender, call, acq, result>>

NoClient ==
    [made |-> "none", enableToken |-> FALSE, token |-> EmptyStr,
     timeout |-> 0, maxRetries |-> 0, retryDelay |-> 0,
     exponentialBackoff |-> FALSE]

NoSender ==
    [err |-> "none", hasBody |-> FALSE, contentType |-> FALSE,
     authz |-> <<>>, userAgent |-> 0, bodyRead |-> FALSE]

\* attempt and retryDelay are the locals of WithToken / WithKey; hdrPtr is
\* the first word of the token read for the header.  History: dos counts the
\* client.Do calls, sleeps lists the time.Sleep calls (after: the attempts
\* made before it, d: its seconds), last is the latest outcome, onlyNetErr
\* says every outcome so far was a transport error, ledByNetErr that every
\* outcome before the latest was one, expired counts the 801
\* answers, stored is the token the call's latest refresh saved (after: the
\* attempts made before it; 0: none), typed is the error the typed caller
\* of the call returned ("none": it has not returned).
NoCall ==
    [op |-> "none", attempt |-> 0, retryDelay |-> 0, hdrPtr |-> 0,
     dos |-> 0, sleeps |-> <<>>, last |-> NoOutcome, onlyNetErr |-> TRUE,
     ledByNetErr |-> TRUE, expired |-> 0, stored |-> [after |-> 0, tok |-> 0],
     typed |-> "none"]

\* The WithKey call of applyToken, its request's headers, and the decoded
\* token.  History: before is the stored token when applyToken was called,
\* ret what applyToken returned ("none" while it runs, "panic" when it did
\* not return), calls the number of applyToken calls of the goroutine in
\* its current operation.
NoAcq ==
    [attempt |-> 0, retryDelay |-> 0, authz |-> <<>>, userAgent |-> 0,
     Token |-> 0, dos |-> 0, sleeps |-> <<>>,
     before |-> EmptyStr, ret |-> "none", calls |-> 0]

\* --------------------------------------------------------- the retry loop
\* time.Sleep(retryDelay)
Sleep(f) == [f EXCEPT !.sleeps = Append(@, [after |-> f.dos, d |-> f.retryDelay])]

\* if exponentialBackoff { retryDelay *= 2 }
Backoff(c, f) ==
    [f EXCEPT !.retryDelay = IF c.exponentialBackoff THEN 2 * @ ELSE @]

SleepBackoff(c, f) == Backoff(c, Sleep(f))

\* A faulty variant of NextAttempt: the wait is not guarded by attempt < maxRetries-1.
NextAttemptAlwaysWaits(c, f) == [SleepBackoff(c, f) EXCEPT !.attempt = @ + 1]

\* The end of one iteration whose closure returned nil: "Wait before
\* retrying" unless this was the last attempt, then attempt++.
NextAttempt(c, f) ==
    LET g == IF f.attempt < c.maxRetries - 1 THEN SleepBackoff(c, f) ELSE f
    IN  [g EXCEPT !.attempt = @ + 1]

\* A faulty variant of LoopRuns: the test is made after the iteration.
LoopRunsAtLeastOnce(c, f) == f.attempt = 0 \/ f.attempt < c.maxRetries

\* A faulty variant of LoopRuns: the bound is off by one.
LoopRunsOnceMore(c, f) == f.attempt <= c.maxRetries

\* The loop condition.
LoopRuns(c, f) == f.attempt < c.maxRetries

\* client.Do returned (history only).
Did(f) == [f EXCEPT !.dos = @ + 1]

\* The outcome a call of the application got (history only).
Got(f, o) ==
    [f EXCEPT !.last = o, !.onlyNetErr = @ /\ o.kind = "neterr",
              !.ledByNetErr = f.onlyNetErr]

\* A faulty variant of Class: the status of the response is not tested.
ClassIgnoresStatus(o) ==
    IF o.shape \in {"none", "garbage"} THEN "retry"
    ELSE IF parse(o).Code = CodeExpired THEN "expired"
    ELSE "return"

\* A faulty variant of Class: every envelope whose code is not 200 is retried.
ClassRetriesRejections(o) ==
    IF o.kind # "body" THEN "retry"
    ELSE IF o.shape = "garbage" THEN "retry"
    ELSE IF parse(o).Code = CodeExpired THEN "expired"
    ELSE IF parse(o).Err = "nil" /\ parse(o).Code # CodeOK THEN "retry"
    ELSE "return"

\* What the closure of one attempt does with an outcome: "retry" (return
\* nil), "expired" (the 801 branch) or "return" (return parsed).
Class(o) ==
    IF o.kind # "body" THEN "retry"
    ELSE IF o.shape = "garbage" THEN "retry"
    ELSE IF parse(o).Code = CodeExpired THEN "expired"
    ELSE "return"

\* One iteration of WithKey's loop on frame f with outcome o, and the
\* return after the loop when it was the last.
KeyIteration(c, f, o) ==
    LET f1 == Did(f)
        cls == Class(o)
    IN  IF cls = "return"
        THEN [frame |-> f1, returned |-> TRUE, result |-> parse(o)]
        ELSE LET f2 == IF cls = "expired" THEN SleepBackoff(c, f1) ELSE f1
                 f3 == NextAttempt(c, f2)
             IN  IF LoopRuns(c, f3)
                 THEN [frame |-> f3, returned |-> FALSE, result |-> NoResult]
                 ELSE [frame |-> f3, returned |-> TRUE, result |-> Exhausted]

\* ------------------------------------------------------------ the headers
\* A faulty variant of Bearer: the header is formatted without the token.
BearerWithoutToken(s) == [scheme |-> "Bearer", ptr |-> 0, len |-> 0]

\* fmt.Sprintf("Bearer %s", token)
Bearer(s) == [scheme |-> "Bearer", ptr |-> s.ptr, len |-> s.len]
Basic == [scheme |-> "Basic", ptr |-> 0, len |-> 0]

\* s.request.Header.Add("Authorization", v); Header.Add("User-Agent", ...)
AddHeaders(s, v) ==
    [s EXCEPT !.authz = Append(@, v), !.userAgent = @ + 1]

\* ------------------------------------------------------- the request body
\* Send wraps the encoded payload in one strings.Reader, which every
\* client.Do(s.request) of the call reads on; nothing rewinds it between
\* the attempts.  bodyRead says the reader has been read to its end.
\*
\* What client.Do can give on the Sender s: once the reader of a request
\* with a payload is at its end, writing the request fails before anything
\* is sent (the body is shorter than the Content-Length), a transport
\* error.
Dispatch(s) ==
    IF s.hasBody /\ s.bodyRead
    THEN {o \in Outcomes : o.kind = "neterr"}
    ELSE Outcomes

\* A faulty variant of Sent: the reader is never marked as read.
SentKeepsBody(s, o, r) == s

\* The Sender after client.Do gave o: a response means the request was
\* written, body included; a transport error may come before the body is
\* read (r = FALSE) or after (r = TRUE).
Sent(s, o, r) ==
    [s EXCEPT !.bodyRead = s.hasBody /\ (@ \/ o.kind # "neterr" \/ r)]

\* ----------------------------------------------------------------- actions
\* A panic that nothing recovers ends the program: no goroutine runs on.
Running == \A q \in Procs : pc[q] # "panic"

Opt(v, default) == IF v = Unset THEN default ELSE v[1]

\* The Client NewClient builds: the defaults, then the options.
Configured(o) ==
    [made |-> "building",
     enableToken |-> Opt(o.enableToken, TRUE),
     token |-> EmptyStr,
     timeout |-> Opt(o.timeout, DefaultTimeout),
     maxRetries |-> Opt(o.maxRetries, DefaultMaxRetries),
     retryDelay |-> Opt(o.retryDelay, DefaultRetryDelay),
     exponentialBackoff |-> Opt(o.exponentialBackoff, TRUE)]

\* applyToken is entered: c.Send(endpoint + "/openAPI/token", GET, nil)
\* builds a request without error and WithKey copies the retry delay.
EnterApplyToken(c, a) ==
    [NoAcq EXCEPT !.retryDelay = c.retryDelay, !.before = c.token,
                  !.calls = a.calls + 1]

\* A faulty variant of EnterCall: the delay is not copied from the client.
EnterCallWithoutDelay(c, op) == [NoCall EXCEPT !.op = op]

\* The WithKey / WithToken prologue on a Sender without error.
EnterCall(c, op) == [NoCall EXCEPT !.op = op, !.retryDelay = c.retryDelay]

\* A faulty variant of SenderFailed: the prologue does not test s.err.
SenderErrIgnored(s) == FALSE

\* if s.err != nil { return &Result{Err: s.err} }
SenderFailed(s) == s.err # "nil"

\* A faulty variant of Return: a failed acquisition clears the token.
ReturnClearsToken(p, e, c, cl) ==
    LET c2 == IF e = "nil" THEN c ELSE [c EXCEPT !.token = EmptyStr]
    IN  IF cl.op = "NewClient"
        THEN /\ client' = [c2 EXCEPT !.made = IF e = "nil" THEN "ready" ELSE "failed"]
             /\ pc' = [q \in Procs |->
                         IF q = p THEN (IF e = "nil" THEN "idle" ELSE "failed")
                         ELSE IF e = "nil" /\ pc[q] = "unborn" THEN "idle"
                         ELSE pc[q]]
             /\ call' = [call EXCEPT ![p] = cl]
             /\ UNCHANGED result
        ELSE /\ client' = c2
             /\ IF e # "nil"
                THEN /\ result' = [result EXCEPT ![p] = ErrResult(e)]
                     /\ call' = [call EXCEPT ![p] = cl]
                     /\ pc' = [pc EXCEPT ![p] = "done"]
                ELSE LET f == NextAttempt(c2, cl)
                     IN  /\ call' = [call EXCEPT ![p] = f]
                         /\ IF LoopRuns(c2, f)
                            THEN /\ pc' = [pc EXCEPT ![p] = "header"]
                                 /\ UNCHANGED result
                            ELSE /\ pc' = [pc EXCEPT ![p] = "done"]
                                 /\ result' = [result EXCEPT ![p] = Exhausted]

\* applyToken returned e ("nil" or an error) to its caller, with the Client
\* now c and the caller's activation cl: NewClient returns the client or the
\* error; the closure of WithToken returns a Result with the error, or nil,
\* and the loop goes on.
Return(p, e, c, cl) ==
    IF cl.op = "NewClient"
    THEN /\ client' = [c EXCEPT !.made = IF e = "nil" THEN "ready" ELSE "failed"]
         /\ pc' = [q \in Procs |->
                     IF q = p THEN (IF e = "nil" THEN "idle" ELSE "failed")
                     ELSE IF e = "nil" /\ pc[q] = "unborn" THEN "idle"
                     ELSE pc[q]]
         /\ call' = [call EXCEPT ![p] = cl]
         /\ UNCHANGED result
    ELSE /\ client' = c
         /\ IF e # "nil"
            THEN /\ result' = [result EXCEPT ![p] = ErrResult(e)]
                 /\ call' = [call EXCEPT ![p] = cl]
                 /\ pc' = [pc EXCEPT ![p] = "done"]
            ELSE LET f == NextAttempt(c, cl)
                 IN  /\ call' = [call EXCEPT ![p] = f]
                     /\ IF LoopRuns(c, f)
                        THEN /\ pc' = [pc EXCEPT ![p] = "header"]
                             /\ UNCHANGED result
                        ELSE /\ pc' = [pc EXCEPT ![p] = "done"]
                             /\ result' = [result EXCEPT ![p] = Exhausted]

\* NewClient(secretID, secretKey, options...) up to the first round trip of
\* applyToken, or to its return when there is none.
NewClient(p) ==
    /\ Running
    /\ pc[p] = "start"
    /\ LET c == Configured(opts)
           cl == [NoCall EXCEPT !.op = "NewClient"]
       IN  IF c.enableToken
           THEN IF LoopRuns(c, EnterApplyToken(c, acq[p]))
                THEN /\ client' = c
                     /\ acq' = [acq EXCEPT ![p] = EnterApplyToken(c, @)]
                     /\ call' = [call EXCEPT ![p] = cl]
                     /\ pc' = [pc EXCEPT ![p] = "applyToken"]
                     /\ UNCHANGED result
                ELSE /\ acq' = [acq EXCEPT ![p] =
                            [EnterApplyToken(c, @) EXCEPT !.ret = Exhausted.Err]]
                     /\ Return(p, Exhausted.Err, c, cl)
           ELSE /\ Return(p, "nil", c, cl)
                /\ UNCHANGED acq
    /\ UNCHANGED <<opts, sender>>

Methods == {"GET", "POST", "PUT"}
Payloads == {"nil", "value", "unencodable"}
Urls == {"valid", "invalid"}

\* The Sender of Client.Send(url, method, payload): c.marshal fails on the
\* unencodable payload, http.NewRequest on the invalid url.
NewSender(url, method, payload) ==
    IF payload = "unencodable" THEN [NoSender EXCEPT !.err = "marshal"]
    ELSE IF url = "invalid" THEN [NoSender EXCEPT !.err = "request"]
    ELSE [err |-> "nil", hasBody |-> payload # "nil",
          contentType |-> method = "POST", authz |-> <<>>, userAgent |-> 0,
          bodyRead |-> FALSE]

\* Client.Send
Send(p) ==
    /\ Running
    /\ pc[p] = "idle"
    /\ client.made = "ready"
    /\ \E url \in Urls, method \in Methods, payload \in Payloads :
          sender' = [sender EXCEPT ![p] = NewSender(url, method, payload)]
    /\ pc' = [pc EXCEPT ![p] = "sender"]
    /\ UNCHANGED <<opts, client, call, acq, result>>

\* The prologue of WithToken / WithKey and the first loop test.  The
\* history of the goroutine's earlier applyToken calls is dropped.
Enter(p, op, at) ==
    /\ Running
    /\ pc[p] = "sender"
    /\ IF SenderFailed(sender[p])
       THEN /\ result' = [result EXCEPT ![p] = ErrResult(sender[p].err)]
            /\ call' = [call EXCEPT ![p] = [NoCall EXCEPT !.op = op]]
            /\ pc' = [pc EXCEPT ![p] = "done"]
       ELSE /\ call' = [call EXCEPT ![p] = EnterCall(client, op)]
            /\ IF LoopRuns(client, EnterCall(client, op))
               THEN /\ pc' = [pc EXCEPT ![p] = at]
                    /\ UNCHANGED result
               ELSE /\ pc' = [pc EXCEPT ![p] = "done"]
                    /\ result' = [result EXCEPT ![p] = Exhausted]
    /\ acq' = [acq EXCEPT ![p] = NoAcq]
    /\ UNCHANGED <<opts, client, sender>>

\* Sender.WithToken is called.
WithToken(p) == Enter(p, "WithToken", "header")

\* Sender.WithKey is called.
WithKey(p) == Enter(p, "WithKey", "keyDo")

\* fmt.Sprintf("Bearer %s", s.client.token) loads the first word of token.
ReadToken(p) ==
    /\ Running
    /\ pc[p] = "header"
    /\ call' = [call EXCEPT ![p].hdrPtr = client.token.ptr]
    /\ pc' = [pc EXCEPT ![p] = "do"]
    /\ UNCHANGED <<opts, client, sender, acq, result>>

\* One attempt of WithToken from the second word of the token on: the
\* headers, client.Do, the classification, and what follows it up to the
\* next shared access.
TokenAttempt(p) ==
    /\ Running
    /\ pc[p] = "do"
    /\ \E o \in Dispatch(sender[p]), r \in BOOLEAN :
          /\ sender' = [sender EXCEPT ![p] = Sent(AddHeaders(@,
                 Bearer([ptr |-> call[p].hdrPtr, len |-> client.token.len])),
                 o, r)]
          /\ LET f1 == Got(Did(call[p]), o)
                 cls == Class(o)
             IN  IF cls = "return"
                 THEN /\ call' = [call EXCEPT ![p] = f1]
                      /\ result' = [result EXCEPT ![p] = parse(o)]
                      /\ pc' = [pc EXCEPT ![p] = "done"]
                      /\ UNCHANGED acq
                 ELSE IF cls = "expired"
                 THEN /\ call' = [call EXCEPT ![p] =
                             [SleepBackoff(client, f1) EXCEPT !.expired = @ + 1]]
                      /\ acq' = [acq EXCEPT ![p] = EnterApplyToken(client, @)]
                      /\ pc' = [pc EXCEPT ![p] = "applyToken"]
                      /\ UNCHANGED result
                 ELSE LET f3 == NextAttempt(client, f1)
                      IN  /\ call' = [call EXCEPT ![p] = f3]
                          /\ IF LoopRuns(client, f3)
                             THEN /\ pc' = [pc EXCEPT ![p] = "header"]
                                  /\ UNCHANGED result
                             ELSE /\ pc' = [pc EXCEPT ![p] = "done"]
                                  /\ result' = [result EXCEPT ![p] = Exhausted]
                          /\ UNCHANGED acq
    /\ UNCHANGED <<opts, client>>

\* One attempt of a WithKey call.
KeyAttempt(p) ==
    /\ Running
    /\ pc[p] = "keyDo"
    /\ \E o \in Dispatch(sender[p]), r \in BOOLEAN :
          /\ sender' = [sender EXCEPT ![p] = Sent(AddHeaders(@, Basic), o, r)]
          /\ LET it == KeyIteration(client, Got(call[p], o), o)
             IN  /\ call' = [call EXCEPT ![p] = it.frame]
                 /\ IF it.returned
                    THEN /\ result' = [result EXCEPT ![p] = it.result]
                         /\ pc' = [pc EXCEPT ![p] = "done"]
                    ELSE UNCHANGED <<result, pc>>
    /\ UNCHANGED <<opts, client, acq>>

\* What applyToken does with the Result r of its WithKey call: "err" with
\* the error it returns, "panic" (result.Err.Error() on a nil Err, in the
\* argument of the log call of the unmarshal branch), or "save".
ApplyTokenCheck(r) ==
    IF r.Err # "nil" THEN [to |-> "err", e |-> r.Err]
    ELSE IF ~OK(r) THEN [to |-> "err", e |-> "upstream"]
    ELSE IF Unmarshal(r).err # "nil" THEN [to |-> "panic", e |-> "none"]
    ELSE [to |-> "save", e |-> "nil"]

\* One attempt of the WithKey call of applyToken and, when that call
\* returns, applyToken up to its return or to the assignment of c.token.
ApplyTokenAttempt(p) ==
    /\ Running
    /\ pc[p] = "applyToken"
    /\ \E o \in Outcomes :
          LET a == AddHeaders(acq[p], Basic)
              it == KeyIteration(client, a, o)
              chk == ApplyTokenCheck(it.result)
          IN  IF ~it.returned
              THEN /\ acq' = [acq EXCEPT ![p] = it.frame]
                   /\ UNCHANGED <<client, pc, call, result>>
              ELSE IF chk.to = "err"
              THEN /\ acq' = [acq EXCEPT ![p] = [it.frame EXCEPT !.ret = chk.e]]
                   /\ Return(p, chk.e, client, call[p])
              ELSE IF chk.to = "panic"
              THEN /\ acq' = [acq EXCEPT ![p] = [it.frame EXCEPT !.ret = "panic"]]
                   /\ pc' = [pc EXCEPT ![p] = "panic"]
                   /\ UNCHANGED <<client, call, result>>
              ELSE /\ acq' = [acq EXCEPT ![p] =
                          [it.frame EXCEPT !.Token = Unmarshal(it.result).Token]]
                   /\ pc' = [pc EXCEPT ![p] = "store"]
                   /\ UNCHANGED <<client, call, result>>
    /\ UNCHANGED <<opts, sender>>

\* c.token = token.Token stores the first word.
StoreTokenPtr(p) ==
    /\ Running
    /\ pc[p] = "store"
    /\ client' = [client EXCEPT !.token.ptr = acq[p].Token]
    /\ pc' = [pc EXCEPT ![p] = "storeLen"]
    /\ UNCHANGED <<opts, sender, call, acq, result>>

\* c.token = token.Token stores the second word; applyToken returns nil.
\* Its activation ends: what is kept of it is history.
StoreTokenLen(p) ==
    /\ Running
    /\ pc[p] = "storeLen"
    /\ acq' = [acq EXCEPT ![p] =
           IF call[p].op = "NewClient" THEN [@ EXCEPT !.ret = "nil"]
           ELSE [NoAcq EXCEPT !.ret = "nil", !.before = acq[p].before,
                              !.calls = acq[p].calls]]
    /\ Return(p, "nil", [client EXCEPT !.token.len = acq[p].Token],
              [call[p] EXCEPT !.stored =
                  [after |-> call[p].dos, tok |-> acq[p].Token]])
    /\ UNCHANGED <<opts, sender>>

\* What shortLink.Add and realName.VerifyCNID do with the Result r of their
\* WithToken call: "err" with the error they return, "panic"
\* (result.Err.Error() on a nil Err, in the argument of the log call of
\* the unmarshal branch), or "value" (the decoded field and a nil error).
TypedCheck(r) ==
    IF r.Err # "nil" THEN [to |-> "err", e |-> r.Err]
    ELSE IF ~OK(r) THEN [to |-> "err", e |-> "upstream"]
    ELSE IF Unmarshal(r).err # "nil" THEN [to |-> "panic", e |-> "none"]
    ELSE [to |-> "value", e |-> "nil"]

\* The rest of shortLink.Add / realName.VerifyCNID after the WithToken call
\* on their POST request returned.
TypedReturn(p) ==
    /\ Running
    /\ pc[p] = "done"
    /\ call[p].op = "WithToken"
    /\ sender[p].err # "marshal"
    /\ sender[p].err = "nil" => (sender[p].contentType /\ sender[p].hasBody)
    /\ LET chk == TypedCheck(result[p])
       IN  IF chk.to = "panic"
           THEN /\ pc' = [pc EXCEPT ![p] = "panic"]
                /\ UNCHANGED call
           ELSE /\ pc' = [pc EXCEPT ![p] = "returned"]
                /\ call' = [call EXCEPT ![p].typed = chk.e]
    /\ UNCHANGED <<opts, client, sender, acq, result>>

Next ==
    \E p \in Procs :
        \/ NewClient(p)
        \/ Send(p)
        \/ WithToken(p)
        \/ WithKey(p)
        \/ ReadToken(p)
        \/ TokenAttempt(p)
        \/ KeyAttempt(p)
        \/ ApplyTokenAttempt(p)
        \/ StoreTokenPtr(p)
        \/ StoreTokenLen(p)
        \/ TypedReturn(p)

\* The options NewClient is given.  WithMaxRetries is always passed (the
\* default of 5 attempts is beyond the bound); the other options are
\* passed with a value other than the default, or not passed.
Options(retries) ==
    [maxRetries : {<<n>> : n \in retries},
     retryDelay : {Unset, <<DelayOpt>>},
     exponentialBackoff : {Unset, <<FALSE>>},
     enableToken : {Unset, <<FALSE>>},
     timeout : {Unset}]

InitWith(os, others) ==
    /\ opts \in os
    /\ client = NoClient
    /\ pc = [p \in Procs |-> IF p = 1 THEN "start" ELSE others]
    /\ sender = [p \in Procs |-> NoSender]
    /\ call = [p \in Procs |-> NoCall]
    /\ acq = [p \in Procs |-> NoAcq]
    /\ result = [p \in Procs |-> NoResult]

\* One goroutine constructs the client and uses it.  WithMaxRetries is given
\* -1..MaxRetriesOpt.
Init == InitWith(Options((-1)..MaxRetriesOpt), "off")

Spec == Init /\ [][Next]_vars

\* Goroutine 1 constructs the client with token auth and hands it to the
\* others; all of them use it concurrently.
InitConc ==
    InitWith({o \in Options(1..ConcRetries) :
                 o.enableToken = Unset /\ o.retryDelay = Unset}, "unborn")

SpecConc == InitConc /\ [][Next]_vars

\* Every round trip and every sleep returns: a goroutine that can take a
\* step takes one.
SpecLive == Init /\ [][Next]_vars /\ WF_vars(Next)

\* ------------------------------------------------------------- properties
AppCall(p) == call[p].op \in {"WithToken", "WithKey"}
\* The WithToken / WithKey call of p has returned (its typed caller may have
\* gone on since).
Done(p) ==
    \/ pc[p] \in {"done", "returned"}
    \/ pc[p] = "panic" /\ acq[p].ret # "panic"

\* The errors a Result or applyToken can carry.
Errors == {"marshal", "request", "decode", "upstream", "unmarshal", "exhausted"}

RECURSIVE Pow2(_)
Pow2(n) == IF n = 0 THEN 1 ELSE 2 * Pow2(n - 1)

RECURSIVE SleptAfter(_, _)
\* The seconds slept after attempt k and before the next one.
SleptAfter(sl, k) ==
    IF sl = <<>> THEN 0
    ELSE (IF Head(sl).after = k THEN Head(sl).d ELSE 0) + SleptAfter(Tail(sl), k)

\* C1: with maxRetries = N >= 1 and only transport errors, a WithToken or
\* WithKey call makes exactly N attempts, sleeps exactly N-1 times, once
\* after each of the attempts 1..N-1 and never after the last, calls no
\* refresh, and returns the retry-exhaustion error.
C1_TransportErrorsExhaust ==
    \A p \in Procs :
        (Done(p) /\ AppCall(p) /\ ~SenderFailed(sender[p])
            /\ call[p].onlyNetErr /\ client.maxRetries >= 1)
        => /\ call[p].dos = client.maxRetries
           /\ Len(call[p].sleeps) = client.maxRetries - 1
           /\ \A i \in 1..Len(call[p].sleeps) : call[p].sleeps[i].after = i
           /\ acq[p].calls = 0
           /\ result[p] = Exhausted

C1_Witness ==
    \E p \in Procs :
        /\ Done(p) /\ call[p].op = "WithToken" /\ call[p].onlyNetErr
        /\ client.maxRetries = MaxRetriesOpt /\ call[p].dos = MaxRetriesOpt
        /\ Len(call[p].sleeps) = MaxRetriesOpt - 1

\* C2: in every WithToken / WithKey call with base delay D, the total delay
\* slept between attempt k and attempt k+1 is D*2^(k-1) with exponential
\* backoff and D without, whatever the retryable outcomes were.
C2_DelayBetweenAttempts ==
    \A p \in Procs :
        AppCall(p) =>
            \A k \in 1..(call[p].dos - 1) :
                SleptAfter(call[p].sleeps, k) =
                    IF client.exponentialBackoff
                    THEN client.retryDelay * Pow2(k - 1)
                    ELSE client.retryDelay

\* The header value "Bearer " followed by the whole token t.
BearerOf(t) == [scheme |-> "Bearer", ptr |-> t, len |-> t]

C4_RejectionReturned ==
    \A p \in Procs :
        (AppCall(p) /\ call[p].last.shape = "envelope"
            /\ call[p].last.code \notin {CodeOK, CodeExpired})
        => /\ Done(p)
           /\ result[p] = [Err |-> "nil", Code |-> call[p].last.code,
                           Msg |-> call[p].last.msg,
                           Body |-> call[p].last.data]
           /\ ~OK(result[p])
           /\ \A i \in 1..Len(call[p].sleeps) :
                 call[p].sleeps[i].after < call[p].dos
           /\ acq[p].calls = call[p].expired

\* A rejection answered a second attempt, after one sleep.
C4_Witness ==
    \E p \in Procs :
        /\ Done(p) /\ AppCall(p)
        /\ call[p].last.code = CodeDenied
        /\ call[p].dos = 2
        /\ result[p].Code = CodeDenied /\ result[p].Err = "nil"

\* C5: in WithToken, when the refresh an 801 answer triggered fails, the
\* call has returned a Result whose Err is the refresh error, with no
\* attempt after the refresh.
C5_RefreshFailureAborts ==
    \A p \in Procs :
        (call[p].op = "WithToken" /\ acq[p].calls > 0
            /\ acq[p].ret \notin {"none", "nil"})
        => /\ Done(p)
           /\ acq[p].ret \in Errors
           /\ result[p] = ErrResult(acq[p].ret)
           /\ Class(call[p].last) = "expired"

\* C6: whenever applyToken fails (its key-authenticated call returned an
\* error, the envelope code is not 200, or the data does not decode), it
\* has returned a non-nil error and the stored token is what it was before.
C6_FailedAcquisitionReturnsError ==
    \A p \in Procs :
        (acq[p].calls > 0 /\ acq[p].ret \notin {"none", "nil"})
        => /\ acq[p].ret \in Errors
           /\ client.token = acq[p].before

\* C7: NewClient with token auth makes exactly one token acquisition; when
\* it succeeds the client is returned with the token of the upstream's
\* answer, when it fails NewClient returns the error and no client.  With
\* token auth disabled it makes no round trip and the token stays empty.
C7_NewClientAcquiresOnce ==
    (call[1].op = "NewClient" /\ pc[1] # "applyToken"
        /\ pc[1] # "store" /\ pc[1] # "storeLen")
    => IF client.enableToken
       THEN /\ acq[1].calls = 1
            /\ \/ /\ acq[1].ret = "nil"
                  /\ client.made = "ready"
                  /\ client.token = Str(acq[1].Token)
                  /\ acq[1].Token \in Tokens
               \/ /\ acq[1].ret \in Errors
                  /\ client.made = "failed"
                  /\ pc[1] = "failed"
       ELSE /\ client.made = "ready"
            /\ acq[1].calls = 0 /\ acq[1].dos = 0
            /\ client.token = EmptyStr

\* C10: a Sender that carries a construction error has no request; the
\* WithToken or WithKey call on it returns a Result with exactly that
\* error, without an attempt, a header, a sleep or a refresh.
C10_FailedSenderShortCircuits ==
    \A p \in Procs :
        (pc[p] \notin {"off", "unborn", "start", "idle", "failed"}
            /\ AppCall(p) /\ sender[p].err \in {"marshal", "request"})
        => /\ Done(p)
           /\ result[p] = ErrResult(sender[p].err)
           /\ call[p].dos = 0 /\ call[p].sleeps = <<>>
           /\ sender[p].authz = <<>> /\ sender[p].userAgent = 0
           /\ acq[p].calls = 0 /\ acq[p].dos = 0

C10_Witness ==
    \E p \in Procs :
        /\ Done(p) /\ call[p].op = "WithToken"
        /\ sender[p].err = "marshal" /\ result[p].Err = "marshal"
        /\ client.maxRetries > 0

\* A goroutine is between the two loads of c.token of an attempt, or
\* between the two stores of c.token = token.Token.
Reading(p) == pc[p] = "do"
Writing(p) == pc[p] = "storeLen"

\* C8: the reads of the stored token by WithToken attempts and its writes by
\* refreshes exclude each other: no state has a read of the token overlap a
\* write of it, and no attempt builds its Authorization header from a
\* partially written token.
C8_TokenAccessExclusive ==
    /\ \A p, q \in Procs :
          p # q => /\ ~(Reading(p) /\ Writing(q))
                   /\ ~(Writing(p) /\ Writing(q))
    /\ \A p \in Procs :
          \A i \in 1..Len(sender[p].authz) : Whole(sender[p].authz[i])

\* C9: after any interleaving of the refreshes of concurrent WithToken
\* calls, the stored token is one whole token of the upstream, never a mix
\* of two: whenever no store is under way the two words belong together.
C9_StoredTokenWhole ==
    (\A p \in Procs : ~Writing(p)) => Whole(client.token)

\* The Result carries an error and nothing else.
Failed(r) ==
    r.Err \in Errors /\ r.Code = 0 /\ r.Msg = "" /\ r.Body = NoBody

\* The Result carries the code, msg and re-encoded data of the envelope of
\* outcome o, and no error.
Decoded(r, o) ==
    /\ r.Err = "nil" /\ o.kind = "body" /\ o.shape = "envelope"
    /\ r.Code = o.code /\ r.Msg = o.msg
    /\ r.Body.bytes = o.data.bytes /\ r.Body.bytes # "empty"

\* C11: every Result that parse, WithToken or WithKey returns either
\* carries an error with Code 0, no Msg and an empty Body, or carries no
\* error and the code, msg and data of a decoded envelope; never both and
\* never neither.
C11_ErrorXorEnvelope ==
    /\ \A o \in {x \in Outcomes : x.kind = "body"} :
          Failed(parse(o)) # Decoded(parse(o), o)
    /\ \A p \in Procs :
          (AppCall(p) /\ Done(p))
          => Failed(result[p]) # Decoded(result[p], call[p].last)

\* A call returned the error of a body that is JSON but no envelope, on its
\* second attempt.
C11_Witness ==
    \E p \in Procs :
        /\ Done(p) /\ AppCall(p)
        /\ call[p].last.shape = "mistyped" /\ Failed(result[p])
        /\ call[p].dos = 2

\* C12: every Client NewClient returns has maxRetries >= 1 and timeout > 0,
\* whatever the options, and keeps them.
C12_ConfigValid ==
    client.made = "ready" => (client.maxRetries >= 1 /\ client.timeout > 0)

\* C13: every failure is returned as an error value: applyToken and the
\* typed callers never end in a panic.
C13_NoPanic ==
    \A p \in Procs : pc[p] # "panic"

\* The delay of the i-th wait of a call of the client c.
Delay(c, i) ==
    IF c.exponentialBackoff THEN c.retryDelay * Pow2(i - 1) ELSE c.retryDelay

\* The latest attempt of the call was answered HTTP 200 with an envelope of
\* code 200, and every attempt before it with a transport error.
Recovered(p) ==
    /\ AppCall(p) /\ call[p].ledByNetErr
    /\ call[p].last.kind = "body" /\ call[p].last.shape = "envelope"
    /\ call[p].last.code = CodeOK

\* The call ended after attempt k+1 with k waits of D, 2D, ... (D each
\* without backoff) and a Result that is OK().
RecoveredAsClaimed(p) ==
    /\ Done(p)
    /\ call[p].dos <= client.maxRetries
    /\ Len(call[p].sleeps) = call[p].dos - 1
    /\ \A i \in 1..Len(call[p].sleeps) :
          call[p].sleeps[i] = [after |-> i, d |-> Delay(client, i)]
    /\ acq[p].calls = 0
    /\ result[p].Err = "nil" /\ OK(result[p])

\* C14: when the first k < maxRetries attempts of a call meet transport
\* errors and attempt k+1 is answered HTTP 200 {code:200, data:P}, the call
\* makes exactly k+1 attempts, sleeps k times with the delays D, 2D, ...,
\* D*2^(k-1) under exponential backoff, and returns a Result that is OK()
\* and whose Body decodes to P.
C14_RecoversAfterTransportErrors ==
    \A p \in Procs :
        Recovered(p)
        => /\ RecoveredAsClaimed(p)
           /\ result[p].Body = call[p].last.data

\* C15: a WithToken call whose every attempt is answered HTTP 200 with
\* code 801, every refresh succeeding, makes exactly maxRetries attempts,
\* exactly maxRetries applyToken calls, and returns the retry-exhaustion
\* error.
C15_AlwaysExpiredExhausts ==
    \A p \in Procs :
        (Done(p) /\ call[p].op = "WithToken" /\ call[p].dos >= 1
            /\ call[p].expired = call[p].dos /\ acq[p].ret = "nil")
        => /\ call[p].dos = client.maxRetries
           /\ acq[p].calls = client.maxRetries
           /\ result[p] = Exhausted

C15_Witness ==
    \E p \in Procs :
        /\ Done(p) /\ call[p].op = "WithToken"
        /\ client.maxRetries = MaxRetriesOpt
        /\ call[p].expired = MaxRetriesOpt /\ call[p].dos = MaxRetriesOpt
        /\ acq[p].calls = MaxRetriesOpt /\ acq[p].ret = "nil"
        /\ result[p] = Exhausted

\* C16: for every data P the upstream sends in an envelope {code:200,
\* msg:"ok", data:P}, the Result of the call that parsed it has no Err,
\* Code 200, Msg "ok" and a Body that is the encoding of P alone, decoding
\* to a value equal to P.
C16_EnvelopeRoundTrip ==
    \A p \in Procs :
        (AppCall(p) /\ Done(p)
            /\ call[p].last.kind = "body" /\ call[p].last.shape = "envelope"
            /\ call[p].last.code = CodeOK)
        => result[p] = [Err |-> "nil", Code |-> CodeOK, Msg |-> "ok",
                        Body |-> call[p].last.data]

\* C17: an attempt of WithToken or WithKey whose HTTP status is not 200 is
\* retried whatever its body is: the call goes on to the next attempt, or
\* ends with the retry-exhaustion error when it was the last; no Result is
\* built from the body and no refresh is started for it.
C17_StatusAlwaysRetried ==
    \A p \in Procs :
        (AppCall(p) /\ call[p].last.kind = "status")
        => /\ pc[p] \notin {"applyToken", "store", "storeLen", "panic"}
           /\ IF call[p].dos < client.maxRetries
              THEN pc[p] \in {"header", "do", "keyDo"}
              ELSE /\ pc[p] \in {"done", "returned"}
                   /\ result[p] = Exhausted

\* The second response had a status other than 200 and a code-801 envelope
\* for a body; the call went on to its third attempt without a refresh.
C17_Witness ==
    \E p \in Procs :
        /\ call[p].op = "WithToken" /\ pc[p] = "do" /\ call[p].dos = 2
        /\ call[p].last = Envelope("status", CodeExpired, NullData)
        /\ acq[p].calls = 0

\* C18: in WithToken, after an attempt answered 801 whose refresh
\* succeeded, exactly one sleep is made before the next attempt (and only
\* that one when the attempt was the last).
C18_OneSleepAfterRefresh ==
    \A p \in Procs :
        (call[p].op = "WithToken" /\ call[p].stored.after > 0
            /\ pc[p] \notin {"applyToken", "store", "storeLen"})
        => Cardinality({i \in 1..Len(call[p].sleeps) :
               call[p].sleeps[i].after = call[p].stored.after}) = 1

\* C19: WithKey treats an answer of code 801 as it treats a transport
\* error: from every frame its loop reaches, the iteration on the one and
\* the iteration on the other leave the same frame (attempts, sleeps,
\* delay) and the same Result, and WithKey never calls applyToken.
C19_KeyExpiredLikeTransportError ==
    \A p \in Procs :
        (call[p].op = "WithKey" /\ pc[p] = "keyDo")
        => /\ acq[p].calls = 0
           /\ \A o \in {x \in Outcomes : x.kind = "neterr"} :
                 KeyIteration(client, call[p], o) =
                 KeyIteration(client, call[p],
                              Envelope("body", CodeExpired, NullData))

\* C20: a call never returns the envelope-decode error of a body while
\* attempts remain: such a body is retried.
C20_DecodeFailureRetried ==
    \A p \in Procs :
        (AppCall(p) /\ Done(p) /\ call[p].dos < client.maxRetries)
        => result[p].Err # "decode"

\* The goroutine is in a WithToken / WithKey call that has not ended.
InCall(p) == pc[p] \in {"header", "do", "keyDo", "applyToken", "store", "storeLen"}

\* The round trips of the calls stay within maxRetries: those of WithKey,
\* the business attempts and the refreshes of WithToken, and the round
\* trips of each refresh (and of the acquisition of NewClient).
WithinRetries ==
    \A p \in Procs :
        /\ call[p].dos <= IF client.maxRetries > 0 THEN client.maxRetries ELSE 0
        /\ acq[p].dos <= IF client.maxRetries > 0 THEN client.maxRetries ELSE 0
        /\ AppCall(p) =>
              acq[p].calls <= IF client.maxRetries > 0 THEN client.maxRetries ELSE 0
        /\ call[p].op = "WithKey" => acq[p].calls = 0

\* C21: every WithToken and WithKey call (the WithKey call of an
\* acquisition included) ends, by a return or by the panic of the program,
\* whatever the upstream answers, given that every round trip and every
\* sleep returns; WithKey
\* makes at most maxRetries round trips, WithToken at most maxRetries
\* business attempts and at most maxRetries refreshes, each refresh at most
\* maxRetries round trips.
C21_CallsTerminate ==
    /\ []WithinRetries
    /\ \A p \in Procs : InCall(p) ~> ~InCall(p)

\* A WithToken call made maxRetries attempts and maxRetries refreshes, the
\* last of which made maxRetries round trips.
C21_Witness ==
    \E p \in Procs :
        /\ call[p].op = "WithToken" /\ Done(p)
        /\ client.maxRetries = MaxRetriesOpt
        /\ call[p].dos = MaxRetriesOpt /\ acq[p].calls = MaxRetriesOpt
        /\ acq[p].dos = MaxRetriesOpt

\* A step in which goroutine p stores a word of the token a successful
\* acquisition decoded.
StoreStep(p) ==
    /\ pc[p] \in {"store", "storeLen"} /\ pc'[p] # pc[p]
    /\ acq[p].Token \in Tokens

\* C22: the stored token changes only in the step in which a successful
\* acquisition stores it: no Send, no WithKey attempt, no WithToken attempt
\* (answered 801 or not), no sleep and no failed acquisition changes it;
\* and the Authorization value a WithToken attempt adds is built from the
\* token stored when the attempt is made.
C22_TokenChangesOnlyOnRefresh ==
    [][/\ client'.token # client.token => \E p \in Procs : StoreStep(p)
       /\ \A p \in Procs :
             (pc[p] = "do" /\ pc'[p] # "do")
             => sender'[p].authz[Len(sender'[p].authz)] =
                   [scheme |-> "Bearer", ptr |-> client.token.ptr,
                    len |-> client.token.len]]_vars

\* A refresh inside a WithToken call replaced the token, and the call made
\* its next attempt, which met a transport error.
C22_Witness ==
    \E p \in Procs :
        /\ call[p].op = "WithToken" /\ call[p].stored.after > 0
        /\ client.token = Str(call[p].stored.tok)
        /\ acq[p].before # client.token
        /\ call[p].dos = call[p].stored.after + 1
        /\ call[p].last.kind = "neterr"

\* C23: every WithToken / WithKey call, the WithKey call of a refresh
\* included, starts with attempt 0 and the client's configured delay,
\* whatever earlier or enclosing calls did to theirs, and the client's
\* retryDelay, maxRetries, timeout and exponentialBackoff stay what
\* NewClient set.
C23_RetryStatePerCall ==
    /\ \A p \in Procs :
          /\ (pc[p] \in {"header", "do", "keyDo"} /\ call[p].dos = 0)
             => /\ call[p].attempt = 0 /\ call[p].sleeps = <<>>
                /\ call[p].retryDelay = client.retryDelay
          /\ (pc[p] = "applyToken" /\ acq[p].dos = 0)
             => /\ acq[p].attempt = 0 /\ acq[p].sleeps = <<>>
                /\ acq[p].retryDelay = client.retryDelay
    /\ client.made # "none"
       => /\ client.retryDelay = Opt(opts.retryDelay, DefaultRetryDelay)
          /\ client.maxRetries = Opt(opts.maxRetries, DefaultMaxRetries)
          /\ client.timeout = Opt(opts.timeout, DefaultTimeout)
          /\ client.exponentialBackoff = Opt(opts.exponentialBackoff, TRUE)

\* The second refresh of a WithToken call starts with the configured delay
\* while the delay of the enclosing call has grown.
C23_Witness ==
    \E p \in Procs :
        /\ call[p].op = "WithToken" /\ pc[p] = "applyToken"
        /\ acq[p].calls = 2 /\ acq[p].dos = 0
        /\ call[p].retryDelay > client.retryDelay
        /\ acq[p].retryDelay = client.retryDelay

\* C24: the request Send prepares has the header Content-Type:
\* application/json if and only if it carries a body (a non-nil payload),
\* whatever its method.
C24_ContentTypeIffBody ==
    \A p \in Procs :
        (pc[p] \notin {"off", "unborn", "start", "idle", "failed"}
            /\ sender[p].err = "nil")
        => (sender[p].contentType <=> sender[p].hasBody)

\* C25: the request of every attempt of WithToken or WithKey (and of the
\* WithKey call of a refresh) carries exactly one Authorization value, in
\* token mode the one built from the token stored at dispatch: after the
\* k-th client.Do the request has one value, not k.
C25_OneAuthorizationPerAttempt ==
    \A p \in Procs :
        /\ AppCall(p) => Len(sender[p].authz) = IF call[p].dos > 0 THEN 1 ELSE 0
        /\ Len(acq[p].authz) = IF acq[p].dos > 0 THEN 1 ELSE 0

\* C26: every attempt of a call on a Sender built with a payload transmits
\* the whole encoded payload: whenever the call is about to make an
\* attempt, the body is there to be read in full.
C26_BodyAvailableToEveryAttempt ==
    \A p \in Procs :
        (AppCall(p) /\ sender[p].hasBody /\ pc[p] \in {"header", "do", "keyDo"})
        => ~sender[p].bodyRead

\* C27: on a client with maxRetries <= 0, WithToken and WithKey on a Sender
\* without error make no attempt, no sleep and no refresh and return the
\* retry-exhaustion error; NewClient with token auth and such a maxRetries
\* fails without a round trip.
C27_NoAttemptWithoutRetries ==
    client.maxRetries <= 0
    => /\ \A p \in Procs :
             (AppCall(p) /\ ~SenderFailed(sender[p]))
             => /\ Done(p) /\ result[p] = Exhausted
                /\ call[p].dos = 0 /\ call[p].sleeps = <<>>
                /\ sender[p].authz = <<>>
                /\ acq[p].calls = 0 /\ acq[p].dos = 0
       /\ (client.enableToken /\ client.made # "none")
             => /\ client.made = "failed" /\ pc[1] = "failed"
                /\ acq[1].ret = Exhausted.Err
                /\ acq[1].dos = 0 /\ acq[1].sleeps = <<>>

\* A WithToken call on a client built with WithMaxRetries(-1) has returned.
C27_Witness ==
    \E p \in Procs :
        /\ client.maxRetries = -1 /\ call[p].op = "WithToken"
        /\ ~SenderFailed(sender[p]) /\ Done(p) /\ result[p] = Exhausted

====
